---- MODULE Spec2Model ----
(***************************************************************************)
(* Servo driver for the 16-bit timer/counters of the ATmega2560            *)
(* (avr-servo/src/avr_servo.rs, instantiated by avr-servo/src/atmega2560.rs*)
(* for the output-compare channels a, b, c of one timer).                  *)
(*                                                                         *)
(* The state is the register file of ONE timer/counter (TCCRnA, TCCRnB,    *)
(* TCCRnC, ICRn, OCRnA/B/C), the direction of the three pins wired to its  *)
(* output-compare channels, and the ServoPin objects created so far.       *)
(***************************************************************************)
EXTENDS Integers, Naturals, Sequences, FiniteSets, TLC

VARIABLES
    tccra,      \* TCCRnA: [com : Channels -> 0..3, wgm : 0..3]
    tccrb,      \* TCCRnB: [icnc : 0..1, ices : 0..1, wgm : 0..3, cs : 0..7]
    tccrc,      \* TCCRnC: the three force-output-compare bits, as a number
    icr,        \* ICRn, the TOP of the PWM period
    ocr,        \* OCRnA/B/C: [Channels -> 0..65535]
    pinDir,     \* direction of the pin wired to each channel
    mode,       \* ServoPin.mode of the ServoPin of each channel, "None" before new
    requested,  \* history: the mode most recently asked for on each channel
    last,       \* history: the call that returned last
    pc,         \* position of the set_rotation call in flight on each channel
    sp,         \* the local `setpoint` of the set_rotation call in flight
    called      \* history: degrees of the last set_rotation since new/set_mode

vars == <<tccra, tccrb, tccrc, icr, ocr, pinDir, mode, requested, last, pc, sp, called>>

timer == <<tccra, tccrb, tccrc, icr, ocr>>

\* The output-compare channels of one 16-bit timer/counter.
Channels == {"a", "b", "c"}

ServoMode == {"Fast", "Precise"}

----------------------------------------------------------------------------
\* Program constants.

CS_8 == 2
CS_64 == 3
PRESCALE8_SERVO_MIN == 999
PRESCALE8_SERVO_MAX == 4999
PRESCALE8_PWM_TOP == 39999
PRESCALE64_SERVO_MIN == 124
\* The number of ticks in 2.5 ms in place of the counter value reached.
PRESCALE64_SERVO_MAX_ticks == 125 * 5
PRESCALE64_SERVO_MAX == 624
PRESCALE64_PWM_TOP == 4999
WGM01 == 2
WGM23 == 3
COM1A == 2

\* The clock and the servo signal the constants are documented for:
\* 16 MHz system clock, 50 Hz PWM, control pulse of 0.5 ms to 2.5 ms.
CLOCK_HZ == 16000000
PWM_HZ == 50
MIN_PULSE_US == 500
MAX_PULSE_US == 2500

\* degrees : u8
U8_MAX == 255
\* Bit widths of the integer types set_rotation computes in.
U32_BITS == 32
U16_BITS == 16

----------------------------------------------------------------------------
\* Sampling of the degrees argument in the three-channel specifications:
\* every DegStep-th value of 0..U8_MAX.
DegStep == 45

SampledDegrees == {d \in 0..U8_MAX : d % DegStep = 0}

AllDegrees == 0..U8_MAX

----------------------------------------------------------------------------
\* Fixed-width unsigned arithmetic.  A value is reduced modulo 2^bits
\* (16 <= bits <= 32) half-word by half-word, so that 2^32 itself is never
\* formed.

HALF == 2^16

Fits(x, bits) == (x \div HALF) < 2^(bits - 16)

Wrap(x, bits) == ((x \div HALF) % (2^(bits - 16))) * HALF + (x % HALF)

----------------------------------------------------------------------------
\* The timing table: the match arms of set_mode and set_rotation.

PwmTop(m) == IF m = "Fast" THEN PRESCALE64_PWM_TOP ELSE PRESCALE8_PWM_TOP

PwmMin(m) == IF m = "Fast" THEN PRESCALE64_SERVO_MIN ELSE PRESCALE8_SERVO_MIN

PwmMax(m) == IF m = "Fast" THEN PRESCALE64_SERVO_MAX ELSE PRESCALE8_SERVO_MAX

ClockSelect(m) == IF m = "Fast" THEN CS_64 ELSE CS_8

\* The prescale factor of a mode: Fast is Prescale64, Precise Prescale8.
Prescale(m) == IF m = "Fast" THEN 64 ELSE 8

\* get_mode: the name of the mode as a string.
get_mode(ch) == IF mode[ch] = "Fast" THEN "ServoMode::Fast" ELSE "ServoMode::Precise"

----------------------------------------------------------------------------
\* A divisor that was not scaled with the dividend.
Divisor_unscaled == (180 * 10) \div 10

\* The divisor of set_rotation: 180 degrees, scaled by 10 like the dividend.
Divisor == 180 * 10

\* The arithmetic of set_rotation, carried out in unsigned integers of
\* `bits` bits and cast to u16:
\*     range    = pwm_max - pwm_min
\*     setpoint = (pwm_min + (range * degrees * 10) / (180 * 10)) as u16
\* overflow records whether an intermediate result left the range of the
\* type (a panic in a build with overflow checks, a wrapped value without),
\* truncated whether the cast to u16 dropped bits.
Compute(m, degrees, bits) ==
    LET pwm_min == Wrap(PwmMin(m), bits)
        pwm_max == Wrap(PwmMax(m), bits)
        range   == Wrap(pwm_max - pwm_min, bits)
        p1x     == range * degrees
        p1      == Wrap(p1x, bits)
        p2x     == p1 * 10
        p2      == Wrap(p2x, bits)
        q       == p2 \div Divisor
        sumx    == pwm_min + q
        sum     == Wrap(sumx, bits)
    IN  [ value     |-> Wrap(sum, U16_BITS),
          overflow  |-> ~(Fits(p1x, bits) /\ Fits(p2x, bits) /\ Fits(sumx, bits)),
          truncated |-> ~Fits(sum, U16_BITS) ]

\* The same arithmetic without the casts to u32: computed in u16.
Rotation_u16(m, degrees) == Compute(m, degrees, U16_BITS)

\* Dividing before multiplying: range / 180 * degrees.
Rotation_divfirst(m, degrees) ==
    [ value     |-> PwmMin(m) + ((PwmMax(m) - PwmMin(m)) \div 180) * degrees,
      overflow  |-> FALSE,
      truncated |-> FALSE ]

\* Scaling the degrees by 10 in u8, before the cast to u32.
Rotation_u8scale(m, degrees) ==
    [ value     |-> PwmMin(m)
                      + ((PwmMax(m) - PwmMin(m)) * ((degrees * 10) % 256)) \div Divisor,
      overflow  |-> degrees * 10 > U8_MAX,
      truncated |-> FALSE ]

\* The code casts the operands to u32 before computing.
Rotation(m, degrees) == Compute(m, degrees, U32_BITS)

setpoint(m, degrees) == Rotation(m, degrees).value

----------------------------------------------------------------------------
\* Register values.

\* The reset value of TCCRnA, TCCRnB and TCCRnC is 0: every field cleared.
TCCRA_RESET == [com |-> [c \in Channels |-> 0], wgm |-> 0]

TCCRB_RESET == [icnc |-> 0, ices |-> 0, wgm |-> 0, cs |-> 0]

TCCRC_RESET == 0

\* What an earlier user of the timer may have left in the registers.
TCCRA_USED == [com |-> [c \in Channels |-> 3], wgm |-> 1]

TCCRB_USED == [icnc |-> 1, ices |-> 1, wgm |-> 1, cs |-> 5]

\* The waveform generation mode WGMn3:0, split over TCCRnA and TCCRnB.
WGM == tccrb.wgm * 4 + tccra.wgm

\* The record of a call: its name, the channel of the ServoPin, the mode
\* and degrees arguments, the mode the ServoPin was in when the call computed,
\* and what set_rotation returned.
Call(op, ch, m, degrees, used, r) ==
    [op |-> op, ch |-> ch, m |-> m, degrees |-> degrees, used |-> used,
     ret |-> r.value, overflow |-> r.overflow, truncated |-> r.truncated]

NoResult == [value |-> 0, overflow |-> FALSE, truncated |-> FALSE]

NoCall == Call("none", "a", "None", -1, "None", NoResult)

\* The state before the first ServoPin is created: the timer registers hold
\* their reset values or what an earlier user left, every pin is a floating
\* input.
Init ==
    /\ tccra \in {TCCRA_RESET, TCCRA_USED}
    /\ tccrb \in {TCCRB_RESET, TCCRB_USED}
    /\ tccrc \in {TCCRC_RESET, 224}
    /\ icr \in {0, 65535}
    /\ ocr \in {[c \in Channels |-> 0], [c \in Channels |-> 65535]}
    /\ pinDir = [c \in Channels |-> "input"]
    /\ mode = [c \in Channels |-> "None"]
    /\ requested = [c \in Channels |-> "None"]
    /\ last = NoCall
    /\ pc = [c \in Channels |-> "idle"]
    /\ sp = [c \in Channels |-> 0]
    /\ called = [c \in Channels |-> -1]

----------------------------------------------------------------------------
\* new without the write of the initial duty to OCRnx.
new_noduty(ch) ==
    /\ mode[ch] = "None"
    /\ \A c \in Channels : pc[c] = "idle"
    /\ tccra' = [TCCRA_RESET EXCEPT !.com[ch] = COM1A, !.wgm = WGM01]
    /\ tccrb' = [TCCRB_RESET EXCEPT !.wgm = WGM23, !.cs = CS_64]
    /\ tccrc' = TCCRC_RESET
    /\ icr' = PRESCALE64_PWM_TOP
    /\ pinDir' = [pinDir EXCEPT ![ch] = "output"]
    /\ mode' = [mode EXCEPT ![ch] = "Fast"]
    /\ requested' = [requested EXCEPT ![ch] = "Fast"]
    /\ called' = [called EXCEPT ![ch] = -1]
    /\ last' = Call("new", ch, "None", -1, "None", NoResult)
    /\ UNCHANGED <<ocr, pc, sp>>

\* new with modify() on the registers as they are, without reset().
new_modify(ch) ==
    /\ mode[ch] = "None"
    /\ \A c \in Channels : pc[c] = "idle"
    /\ tccra' = [tccra EXCEPT !.com[ch] = COM1A, !.wgm = WGM01]
    /\ tccrb' = [tccrb EXCEPT !.wgm = WGM23, !.cs = CS_64]
    /\ tccrc' = tccrc
    /\ icr' = PRESCALE64_PWM_TOP
    /\ ocr' = [ocr EXCEPT ![ch] = PRESCALE64_SERVO_MIN]
    /\ pinDir' = [pinDir EXCEPT ![ch] = "output"]
    /\ mode' = [mode EXCEPT ![ch] = "Fast"]
    /\ requested' = [requested EXCEPT ![ch] = "Fast"]
    /\ called' = [called EXCEPT ![ch] = -1]
    /\ last' = Call("new", ch, "None", -1, "None", NoResult)
    /\ UNCHANGED <<pc, sp>>

\* ServoPin::new(tc, pin) for the pin of channel ch.  The pin is moved into
\* the call, so each channel is set up at most once.
new(ch) ==
    /\ mode[ch] = "None"
    /\ \A c \in Channels : pc[c] = "idle"
    \* reset() of TCCRnA and TCCRnB, then write() from the reset value
    /\ tccra' = [TCCRA_RESET EXCEPT !.com[ch] = COM1A, !.wgm = WGM01]
    /\ tccrb' = [TCCRB_RESET EXCEPT !.wgm = WGM23, !.cs = CS_64]
    /\ tccrc' = TCCRC_RESET
    /\ icr' = PRESCALE64_PWM_TOP
    /\ ocr' = [ocr EXCEPT ![ch] = PRESCALE64_SERVO_MIN]
    /\ pinDir' = [pinDir EXCEPT ![ch] = "output"]
    /\ mode' = [mode EXCEPT ![ch] = "Fast"]
    /\ requested' = [requested EXCEPT ![ch] = "Fast"]
    /\ called' = [called EXCEPT ![ch] = -1]
    /\ last' = Call("new", ch, "None", -1, "None", NoResult)
    /\ UNCHANGED <<pc, sp>>

\* set_mode without the assignment to self.mode.
set_mode_nostore(ch, m) ==
    /\ mode[ch] # "None"
    /\ \A c \in Channels : pc[c] = "idle"
    /\ tccrb' = [tccrb EXCEPT !.cs = ClockSelect(m)]
    /\ icr' = PwmTop(m)
    /\ ocr' = [ocr EXCEPT ![ch] = PwmMin(m)]
    /\ requested' = [requested EXCEPT ![ch] = m]
    /\ called' = [called EXCEPT ![ch] = -1]
    /\ last' = Call("set_mode", ch, m, -1, "None", NoResult)
    /\ UNCHANGED <<tccra, tccrc, pinDir, mode, pc, sp>>

\* set_mode with write() in place of modify(): the other fields of TCCRnB
\* fall back to their reset values.
set_mode_write(ch, m) ==
    /\ mode[ch] # "None"
    /\ \A c \in Channels : pc[c] = "idle"
    /\ mode' = [mode EXCEPT ![ch] = m]
    /\ tccrb' = [TCCRB_RESET EXCEPT !.cs = ClockSelect(m)]
    /\ icr' = PwmTop(m)
    /\ ocr' = [ocr EXCEPT ![ch] = PwmMin(m)]
    /\ requested' = [requested EXCEPT ![ch] = m]
    /\ called' = [called EXCEPT ![ch] = -1]
    /\ last' = Call("set_mode", ch, m, -1, "None", NoResult)
    /\ UNCHANGED <<tccra, tccrc, pinDir, pc, sp>>

\* set_mode that brings every channel of the timer to the minimum duty of
\* the new mode.
set_mode_allchannels(ch, m) ==
    /\ mode[ch] # "None"
    /\ \A c \in Channels : pc[c] = "idle"
    /\ mode' = [mode EXCEPT ![ch] = m]
    /\ tccrb' = [tccrb EXCEPT !.cs = ClockSelect(m)]
    /\ icr' = PwmTop(m)
    /\ ocr' = [c \in Channels |-> PwmMin(m)]
    /\ requested' = [requested EXCEPT ![ch] = m]
    /\ called' = [called EXCEPT ![ch] = -1]
    /\ last' = Call("set_mode", ch, m, -1, "None", NoResult)
    /\ UNCHANGED <<tccra, tccrc, pinDir, pc, sp>>

\* set_mode without the write of ICRn.
set_mode_notop(ch, m) ==
    /\ mode[ch] # "None"
    /\ \A c \in Channels : pc[c] = "idle"
    /\ mode' = [mode EXCEPT ![ch] = m]
    /\ tccrb' = [tccrb EXCEPT !.cs = ClockSelect(m)]
    /\ ocr' = [ocr EXCEPT ![ch] = PwmMin(m)]
    /\ requested' = [requested EXCEPT ![ch] = m]
    /\ called' = [called EXCEPT ![ch] = -1]
    /\ last' = Call("set_mode", ch, m, -1, "None", NoResult)
    /\ UNCHANGED <<tccra, tccrc, icr, pinDir, pc, sp>>

\* ServoPin::set_mode(&mut self, mode)
set_mode(ch, m) ==
    /\ mode[ch] # "None"
    /\ \A c \in Channels : pc[c] = "idle"
    /\ mode' = [mode EXCEPT ![ch] = m]
    \* modify(): only the clock-select field of TCCRnB changes
    /\ tccrb' = [tccrb EXCEPT !.cs = ClockSelect(m)]
    /\ icr' = PwmTop(m)
    /\ ocr' = [ocr EXCEPT ![ch] = PwmMin(m)]
    /\ requested' = [requested EXCEPT ![ch] = m]
    /\ called' = [called EXCEPT ![ch] = -1]
    /\ last' = Call("set_mode", ch, m, -1, "None", NoResult)
    /\ UNCHANGED <<tccra, tccrc, pinDir, pc, sp>>

\* set_rotation that also rewrites ICRn from the mode of the ServoPin.
set_rotation_retop(ch, degrees) ==
    /\ mode[ch] # "None"
    /\ \A c \in Channels : pc[c] = "idle"
    /\ LET r == Rotation(mode[ch], degrees)
       IN  /\ ocr' = [ocr EXCEPT ![ch] = r.value]
           /\ last' = Call("set_rotation", ch, "None", degrees, mode[ch], r)
    /\ icr' = PwmTop(mode[ch])
    /\ called' = [called EXCEPT ![ch] = degrees]
    /\ UNCHANGED <<tccra, tccrb, tccrc, pinDir, mode, requested, pc, sp>>

\* ServoPin::set_rotation(&self, degrees) -> u16, as one step.
set_rotation(ch, degrees) ==
    /\ mode[ch] # "None"
    /\ \A c \in Channels : pc[c] = "idle"
    /\ LET r == Rotation(mode[ch], degrees)
       IN  /\ ocr' = [ocr EXCEPT ![ch] = r.value]
           /\ last' = Call("set_rotation", ch, "None", degrees, mode[ch], r)
    /\ called' = [called EXCEPT ![ch] = degrees]
    /\ UNCHANGED <<tccra, tccrb, tccrc, icr, pinDir, mode, requested, pc, sp>>

----------------------------------------------------------------------------
\* set_rotation in the two steps it takes when calls on different ServoPins
\* of one timer overlap: the computation of the local setpoint from
\* self.mode, then the write of OCRnx and the return.

\* The computation with one scratch value shared by all ServoPins in place
\* of the local of the call.
set_rotation_compute_shared(ch, degrees) ==
    /\ mode[ch] # "None"
    /\ pc[ch] = "idle"
    /\ sp' = [c \in Channels |-> setpoint(mode[ch], degrees)]
    /\ pc' = [pc EXCEPT ![ch] = "write"]
    /\ called' = [called EXCEPT ![ch] = degrees]
    /\ UNCHANGED <<tccra, tccrb, tccrc, icr, ocr, pinDir, mode, requested, last>>

set_rotation_compute(ch, degrees) ==
    /\ mode[ch] # "None"
    /\ pc[ch] = "idle"
    /\ sp' = [sp EXCEPT ![ch] = setpoint(mode[ch], degrees)]
    /\ pc' = [pc EXCEPT ![ch] = "write"]
    /\ called' = [called EXCEPT ![ch] = degrees]
    /\ UNCHANGED <<tccra, tccrb, tccrc, icr, ocr, pinDir, mode, requested, last>>

set_rotation_write(ch) ==
    /\ pc[ch] = "write"
    /\ ocr' = [ocr EXCEPT ![ch] = sp[ch]]
    /\ pc' = [pc EXCEPT ![ch] = "idle"]
    /\ last' = Call("set_rotation", ch, "None", called[ch], mode[ch],
                    [Rotation(mode[ch], called[ch]) EXCEPT !.value = sp[ch]])
    /\ sp' = [sp EXCEPT ![ch] = 0]
    /\ UNCHANGED <<tccra, tccrb, tccrc, icr, pinDir, mode, requested, called>>

\* The ServoPins of channels a and b of one timer, and every second sampled
\* value of degrees.
OverlapChannels == {"a", "b"}

OverlapDegrees == {d \in SampledDegrees : d % (2 * DegStep) = 0}

\* new and set_mode run while no set_rotation is in flight; set_rotation
\* calls on different ServoPins overlap in every possible way.
NextOverlap ==
    \/ \E ch \in OverlapChannels : new(ch)
    \/ \E ch \in OverlapChannels, m \in ServoMode : set_mode(ch, m)
    \/ \E ch \in OverlapChannels, d \in OverlapDegrees : set_rotation_compute(ch, d)
    \/ \E ch \in OverlapChannels : set_rotation_write(ch)

SpecOverlap == Init /\ [][NextOverlap]_vars

----------------------------------------------------------------------------
\* The three channels of one timer, calls one after another.
Next ==
    \/ \E ch \in Channels : new(ch)
    \/ \E ch \in Channels, m \in ServoMode : set_mode(ch, m)
    \/ \E ch \in Channels, d \in SampledDegrees : set_rotation(ch, d)

Spec == Init /\ [][Next]_vars

\* A timer driven by the single channel a, every value of degrees.
NextSingle ==
    \/ new("a")
    \/ \E m \in ServoMode : set_mode("a", m)
    \/ \E d \in AllDegrees : set_rotation("a", d)

SpecSingle == Init /\ [][NextSingle]_vars

----------------------------------------------------------------------------
\* Properties of set_rotation as a function of the mode and the degrees.

\* C1: for degrees in 0..180, in both modes, the value set_rotation returns
\* lies between the minimum and the maximum duty of the mode: 124..624 in
\* Fast, 999..4999 in Precise.
C1_RotationWithinRange ==
    (last.op = "set_rotation" /\ last.degrees <= 180) =>
        /\ last.used = "Fast" => (124 <= last.ret /\ last.ret <= 624)
        /\ last.used = "Precise" => (999 <= last.ret /\ last.ret <= 4999)
        /\ PwmMin(last.used) <= last.ret /\ last.ret <= PwmMax(last.used)

C1_Witness ==
    /\ last.op = "set_rotation" /\ last.degrees = 179 /\ last.used = "Precise"
    /\ last.ret > 999 /\ last.ret < 4999

\* C2: set_rotation(0) returns the minimum duty of the active mode,
\* set_rotation(180) the maximum duty, and set_rotation(90) returns 374 in
\* Fast mode.
C2_EndPointsExact ==
    last.op = "set_rotation" =>
        /\ last.degrees = 0 => last.ret = (IF last.used = "Fast" THEN 124 ELSE 999)
        /\ last.degrees = 180 => last.ret = (IF last.used = "Fast" THEN 624 ELSE 4999)
        /\ (last.degrees = 90 /\ last.used = "Fast") => last.ret = 374

C2_Witness ==
    /\ last.op = "set_rotation" /\ last.degrees = 180 /\ last.used = "Precise"
    /\ last.ret = 4999 /\ ocr["a"] = 4999

\* C3: whatever degrees (0..255) set_rotation is called with, the duty
\* register of every channel that has a ServoPin lies between the minimum and
\* the maximum duty of the mode of that ServoPin.
C3_DutyWithinRange ==
    \A ch \in Channels :
        mode[ch] # "None" =>
            (PwmMin(mode[ch]) <= ocr[ch] /\ ocr[ch] <= PwmMax(mode[ch]))

\* C4: for every degrees in 0..255 and both modes, set_rotation returns
\* dutyMin + floor((dutyMax - dutyMin) * degrees / 180): no intermediate
\* result overflows 32 bits, the cast to u16 drops nothing, and above 180
\* degrees the result is above the maximum duty (Precise: 90 -> 2999).
C4_FormulaExact ==
    last.op = "set_rotation" =>
        LET lo == IF last.used = "Fast" THEN 124 ELSE 999
            hi == IF last.used = "Fast" THEN 624 ELSE 4999
        IN  /\ ~last.overflow
            /\ ~last.truncated
            /\ last.ret = lo + ((hi - lo) * last.degrees) \div 180
            /\ last.degrees > 180 => last.ret > hi
            /\ (last.used = "Precise" /\ last.degrees = 90) => last.ret = 2999
            /\ ocr[last.ch] = last.ret

C4_Witness ==
    /\ last.op = "set_rotation" /\ last.degrees = 255 /\ last.used = "Precise"
    /\ last.ret = 6665

\* C5: set_rotation is non-decreasing in degrees over 0..180: the value
\* returned for degrees d2 is at least the value of every d1 < d2 in the
\* same mode.
C5_Monotonic ==
    (last.op = "set_rotation" /\ last.degrees <= 180) =>
        \A d1 \in 0..(last.degrees - 1) : setpoint(last.used, d1) <= last.ret

C5_Witness ==
    /\ last.op = "set_rotation" /\ last.degrees = 91 /\ last.used = "Fast"
    /\ setpoint("Fast", 90) < last.ret

----------------------------------------------------------------------------
\* Properties of the ServoPin objects and the timer registers.

\* C6: the mode of a ServoPin is the argument of the most recent set_mode on
\* it, or Fast if there was none since new: get_mode names that mode, and
\* set_rotation computes with the minimum and maximum duty of that mode.
C6_ModeIsLastRequested ==
    /\ \A ch \in Channels :
          mode[ch] # "None" =>
              get_mode(ch) = (IF requested[ch] = "Fast" THEN "ServoMode::Fast"
                                                        ELSE "ServoMode::Precise")
    /\ last.op = "set_rotation" =>
          LET lo == IF requested[last.ch] = "Fast" THEN 124 ELSE 999
              hi == IF requested[last.ch] = "Fast" THEN 624 ELSE 4999
          IN  last.ret = lo + ((hi - lo) * last.degrees) \div 180

C6_Witness ==
    /\ last.op = "set_rotation" /\ last.degrees = 180 /\ last.ret = 4999
    /\ requested[last.ch] = "Precise"
    /\ \E other \in Channels \ {last.ch} :
          requested[other] = "Fast" /\ get_mode(other) = "ServoMode::Fast"

\* C7: right after new, whatever the registers held before, the ServoPin is
\* in mode Fast, the clock select is prescale 64 (0b011), the waveform
\* generation mode is 0b1110, ICRn is 4999, the duty register of the channel
\* is 124, the value set_rotation(0) writes in Fast mode, and the pin is an
\* output.
C7_AfterNew ==
    last.op = "new" =>
        /\ mode[last.ch] = "Fast"
        /\ tccrb.cs = 3
        /\ WGM = 14
        /\ icr = 4999
        /\ ocr[last.ch] = 124
        /\ ocr[last.ch] = setpoint("Fast", 0)
        /\ pinDir[last.ch] = "output"

C7_Witness ==
    /\ last.op = "new"
    /\ \E other \in Channels \ {last.ch} : mode[other] = "Precise"
    /\ \E other \in Channels \ {last.ch} : ocr[other] = 65535

\* C8: after set_mode(m) the ServoPin is in mode m, the clock select is that
\* of m (0b011 Fast, 0b010 Precise), ICRn is the top of m (4999 / 39999) and
\* the duty register of the channel is the minimum duty of m (124 / 999);
\* the waveform generation bits are as they were before the call.
C8_AfterSetMode ==
    /\ [](last.op = "set_mode" =>
            /\ mode[last.ch] = last.m
            /\ tccrb.cs = (IF last.m = "Fast" THEN 3 ELSE 2)
            /\ icr = (IF last.m = "Fast" THEN 4999 ELSE 39999)
            /\ ocr[last.ch] = (IF last.m = "Fast" THEN 124 ELSE 999))
    /\ [][last'.op = "set_mode" =>
            (WGM' = WGM /\ tccra'.wgm = tccra.wgm /\ tccrb'.wgm = tccrb.wgm)]_vars

C8_Witness ==
    /\ last.op = "set_mode" /\ last.m = "Precise" /\ icr = 39999
    /\ WGM = 14 /\ called[last.ch] = -1

\* C9: set_mode on one channel rewrites the clock select and ICRn the other
\* channels of the timer run under, and leaves the mode and the duty
\* register of every other ServoPin as they were.
C9_SetModeSharedTimer ==
    [][last'.op = "set_mode" =>
          /\ tccrb'.cs = (IF last'.m = "Fast" THEN 3 ELSE 2)
          /\ icr' = (IF last'.m = "Fast" THEN 4999 ELSE 39999)
          /\ \A other \in Channels \ {last'.ch} :
                mode'[other] = mode[other] /\ ocr'[other] = ocr[other]]_vars

\* A ServoPin whose recorded mode is not the mode its timer is set up for.
C9_Witness ==
    /\ last.op = "set_mode" /\ last.m = "Precise"
    /\ \E other \in Channels \ {last.ch} :
          /\ mode[other] = "Fast" /\ get_mode(other) = "ServoMode::Fast"
          /\ tccrb.cs = CS_8 /\ icr = PRESCALE8_PWM_TOP
          /\ ocr[other] = 624

\* C10: overlapping set_rotation calls on different channels of one timer
\* do not interfere: a step of set_rotation leaves the clock select, ICRn,
\* the modes and the duty registers of the other channels alone, and once
\* no call is in flight on a channel its duty register holds the value of
\* its own last call, as after the calls in either order.
C10_OverlapIndependent ==
    /\ [](\A ch \in Channels :
            (pc[ch] = "idle" /\ called[ch] >= 0) =>
                LET lo == IF mode[ch] = "Fast" THEN 124 ELSE 999
                    hi == IF mode[ch] = "Fast" THEN 624 ELSE 4999
                IN  ocr[ch] = lo + ((hi - lo) * called[ch]) \div 180)
    /\ [][\A ch \in Channels :
            (pc[ch] = "write" \/ pc'[ch] = "write") =>
                /\ tccra' = tccra /\ tccrb' = tccrb /\ tccrc' = tccrc
                /\ icr' = icr /\ mode' = mode
                /\ \A other \in Channels \ {ch} :
                      (pc[other] = pc'[other]) => ocr'[other] = ocr[other]]_vars

\* A call has returned on one channel while a call on another channel of
\* the timer, which computed its setpoint before, has not yet written.
C10_Witness ==
    /\ last.op = "set_rotation" /\ last.degrees = 90 /\ last.used = "Fast"
    /\ ocr[last.ch] = 374 /\ pc[last.ch] = "idle"
    /\ \E other \in Channels \ {last.ch} :
          /\ pc[other] = "write" /\ called[other] = 180 /\ mode[other] = "Precise"
          /\ sp[other] = 4999 /\ ocr[other] = 999

----------------------------------------------------------------------------
\* C11: set_rotation changes only the duty register of its own channel and
\* returns the value it left there: the mode of every ServoPin, TCCRnA,
\* TCCRnB (clock select, waveform generation bits), TCCRnC, ICRn, the pins
\* and the duty registers of the other channels are as before the call.
C11_RotationFrame ==
    [][last'.op = "set_rotation" =>
          /\ ocr'[last'.ch] = last'.ret
          /\ mode' = mode
          /\ tccra' = tccra /\ tccrb' = tccrb /\ tccrc' = tccrc
          /\ icr' = icr
          /\ pinDir' = pinDir
          /\ \A other \in Channels \ {last'.ch} : ocr'[other] = ocr[other]]_vars

\* A Fast ServoPin has been rotated on a timer that a sibling left set up
\* for Precise.
C11_Witness ==
    /\ last.op = "set_rotation" /\ last.degrees = 90 /\ last.used = "Fast"
    /\ ocr[last.ch] = 374 /\ mode[last.ch] = "Fast"
    /\ icr = 39999 /\ tccrb.cs = 2 /\ WGM = 14
    /\ \E other \in Channels \ {last.ch} : mode[other] = "Precise" /\ ocr[other] = 999

----------------------------------------------------------------------------
\* The derivation of the timing table from the clock.

\* clockHz / (prescale * 50) - 1
DerivedTop(m) == CLOCK_HZ \div (Prescale(m) * PWM_HZ) - 1

\* pulse width * clockHz / prescale, the pulse width in microseconds
PulseTicks(m, us) == (us * (CLOCK_HZ \div 1000000)) \div Prescale(m)

\* C12, as stated: at 16 MHz the values the driver writes are
\* periodTop = clockHz / (prescale * 50) - 1, dutyMin = 0.5 ms * clockHz /
\* prescale and dutyMax = 2.5 ms * clockHz / prescale.
C12_DerivationAsStated ==
    /\ last.op = "set_mode" =>
          /\ icr = DerivedTop(last.m)
          /\ ocr[last.ch] = PulseTicks(last.m, MIN_PULSE_US)
    /\ (last.op = "set_rotation" /\ last.degrees = 180) =>
          last.ret = PulseTicks(last.used, MAX_PULSE_US)

\* C12, amended: periodTop = clockHz / (prescale * 50) - 1, and dutyMin and
\* dutyMax are one less than the number of ticks in 0.5 ms and 2.5 ms (the
\* counter value of the last tick of the pulse, counting from 0): the rows
\* (4999, 124, 624) for Fast and (39999, 999, 4999) for Precise.
C12_DerivationMinusOne ==
    /\ last.op = "set_mode" =>
          /\ icr = DerivedTop(last.m)
          /\ icr = (IF last.m = "Fast" THEN 4999 ELSE 39999)
          /\ ocr[last.ch] = PulseTicks(last.m, MIN_PULSE_US) - 1
          /\ ocr[last.ch] = (IF last.m = "Fast" THEN 124 ELSE 999)
    /\ (last.op = "set_rotation" /\ last.degrees = 180) =>
          /\ last.ret = PulseTicks(last.used, MAX_PULSE_US) - 1
          /\ last.ret = (IF last.used = "Fast" THEN 624 ELSE 4999)
    /\ \A m \in ServoMode :
          /\ PwmTop(m) = DerivedTop(m)
          /\ PwmMin(m) = PulseTicks(m, MIN_PULSE_US) - 1
          /\ PwmMax(m) = PulseTicks(m, MAX_PULSE_US) - 1

C12_Witness ==
    /\ last.op = "set_rotation" /\ last.degrees = 180 /\ last.used = "Fast"
    /\ last.ret = 624 /\ PulseTicks("Fast", MAX_PULSE_US) = 625
    /\ icr = 4999

----------------------------------------------------------------------------
\* C13: on a timer driven by one ServoPin, after new and any set_mode and
\* set_rotation calls with degrees in 0..255, the clock select and ICRn are
\* those of the mode of the ServoPin and the duty register is below ICRn.
C13_SingleChannelConsistent ==
    mode["a"] # "None" =>
        /\ tccrb.cs = (IF mode["a"] = "Fast" THEN 3 ELSE 2)
        /\ icr = (IF mode["a"] = "Fast" THEN 4999 ELSE 39999)
        /\ ocr["a"] < icr

C13_Witness ==
    /\ mode["a"] = "Precise" /\ last.op = "set_rotation" /\ last.degrees = 255
    /\ ocr["a"] = 6665 /\ icr = 39999 /\ tccrb.cs = 2

\* C14: new on a channel of a timer resets and rewrites the registers of
\* the timer: afterwards only the compare-output bits of the new channel
\* are set, the clock select and ICRn are those of Fast (0b011, 4999), and
\* the mode and the duty register of every other ServoPin are as before.
C14_SecondNewResetsTimer ==
    [][last'.op = "new" =>
          /\ tccra'.com = [c \in Channels |-> IF c = last'.ch THEN 2 ELSE 0]
          /\ tccrb'.cs = 3
          /\ icr' = 4999
          /\ \A other \in Channels \ {last'.ch} :
                mode'[other] = mode[other] /\ ocr'[other] = ocr[other]]_vars

\* new has run on a timer whose earlier ServoPin is in mode Precise and was
\* rotated to 180 degrees.
C14_Witness ==
    /\ last.op = "new" /\ tccra.com[last.ch] = 2
    /\ tccrb.cs = 3 /\ icr = 4999
    /\ \E other \in Channels \ {last.ch} :
          /\ mode[other] = "Precise" /\ called[other] = 180 /\ ocr[other] = 4999
          /\ tccra.com[other] = 0 /\ pinDir[other] = "output"

====
